---- MODULE Spec2Model ----
(***************************************************************************)
(* Model of py/dml/slotsmeta.py: the metaclass SlotsMeta, which derives    *)
(* __slots__ and init_args from the argument list of __init__, and the     *)
(* decorator auto_init, whose trampoline chains to the superclass          *)
(* initializer and stores the remaining arguments.                         *)
(*                                                                         *)
(* Classes and functions are objects identified by their index in the      *)
(* sequences `classes` and `funcs`.  A class statement is one action: it   *)
(* evaluates the `def __init__` of the body (through auto_init when it is  *)
(* decorated) and then calls SlotsMeta.__new__.  Every class statement     *)
(* defines a function of its own.                                          *)
(***************************************************************************)
EXTENDS Integers, Sequences, FiniteSets, TLC

\* ----------------------------------------------------------------- bounds
MaxClasses == 3     \* classes created by SlotsMeta in one run
MaxBases == 2       \* bases listed by one class statement
MaxSlotted == 1     \* classes that declare 'slots'

\* ----------------------------------------------------------------- inputs
Names == {"self", "x", "y"}
SlotsChoices == {<<>>, <<"s">>}
Shapes == {"ok", "varargs", "varkw", "kwonly", "kwonlydefaults",
           "defaults", "annotations"}

Range(s) == {s[i] : i \in 1..Len(s)}

\* argument lists of __init__: none, one that does not start with self, and
\* lists that extend one another or differ after self
ArgLists == {<<>>, <<"x">>, <<"self">>, <<"self", "x">>, <<"self", "x", "y">>}

\* the classes that exist before any class statement
Object == 1         \* object
Plain == 2          \* a class that is no SlotsMeta class and defines __init__
Mixin == 3          \* a class that is no SlotsMeta class and defines no __init__
NoFunc == 0
NoClass == 0
MROError == 0

\* classes: the class objects; funcs: the function objects that are the
\* __init__ of some class; orphan: the trampoline of a class statement that
\* failed, still referenced; last: the outcome of the last statement
\* inst: the instance under construction; stack: the calls in progress, the
\* innermost last; log: what the calls did so far
VARIABLES classes, funcs, orphan, last, inst, stack, log

vars == <<classes, funcs, orphan, last, inst, stack, log>>

\* ------------------------------------------------- the language runtime
IsPrefix(p, s) == Len(p) <= Len(s) /\ SubSeq(s, 1, Len(p)) = p

\* s[n:] of Python, for a 0-based n
From(s, n) == SubSeq(s, n + 1, Len(s))

\* C3 linearisation: merge of the bases' MROs and the list of bases
RECURSIVE Merge(_)
Merge(ls) ==
    LET ne == SelectSeq(ls, LAMBDA l : l # <<>>)
    IN  IF ne = <<>> THEN <<>>
        ELSE LET good(i) == \A j \in 1..Len(ne) : \A k \in 2..Len(ne[j]) :
                                ne[j][k] # ne[i][1]
                 cands == {i \in 1..Len(ne) : good(i)}
             IN  IF cands = {} THEN <<MROError>>
                 ELSE LET i == CHOOSE c \in cands : \A d \in cands : c <= d
                          h == ne[i][1]
                      IN  <<h>> \o Merge([j \in 1..Len(ne) |->
                               IF ne[j][1] = h THEN Tail(ne[j]) ELSE ne[j]])

\* inspect.getmro(c)
getmro(cs, c) == cs[c].mro

\* the bases type.__new__ uses: (object,) when none is given
RealBases(bases) == IF bases = <<>> THEN <<Object>> ELSE bases

\* the MRO type.__new__ computes for a new class `self` with these bases
NewMRO(cs, self, bases) ==
    <<self>> \o Merge([i \in 1..Len(RealBases(bases)) |-> getmro(cs, RealBases(bases)[i])]
                      \o <<RealBases(bases)>>)

issubclass(cs, a, b) == b \in Range(getmro(cs, a))

\* attribute lookup along an MRO: the first class whose dict has __init__
RECURSIVE LookupInit(_, _)
LookupInit(cs, m) ==
    IF m = <<>> THEN NoFunc
    ELSE IF cs[m[1]].init # NoFunc THEN cs[m[1]].init
    ELSE LookupInit(cs, Tail(m))

\* c.__init__
InitOf(cs, c) == LookupInit(cs, getmro(cs, c))

\* attribute lookup along an MRO: the first class whose dict has init_args
RECURSIVE LookupArgs(_, _)
LookupArgs(cs, m) ==
    IF m = <<>> THEN <<>>
    ELSE IF cs[m[1]].hasargs THEN cs[m[1]].init_args
    ELSE LookupArgs(cs, Tail(m))

\* c.init_args
InitArgsOf(cs, c) == LookupArgs(cs, getmro(cs, c))

\* isinstance(c, SlotsMeta)
IsSlotsMeta(cs, c) == cs[c].meta

\* the solid bases of the bases must be linearly ordered, or type.__new__
\* raises "multiple bases have instance lay-out conflict"
SolidOfBases(cs, bases) ==
    LET sb == {cs[RealBases(bases)[i]].solid : i \in 1..Len(RealBases(bases))}
    IN  IF \A a, b \in sb : issubclass(cs, a, b) \/ issubclass(cs, b, a)
        THEN CHOOSE a \in sb : \A b \in sb : issubclass(cs, a, b)
        ELSE NoClass

\* the errors of type.__new__, or "none"
TypeNewError(cs, self, bases) ==
    IF \E i, j \in 1..Len(bases) : i # j /\ bases[i] = bases[j] THEN "TypeError"
    ELSE IF MROError \in Range(NewMRO(cs, self, bases)) THEN "TypeError"
    ELSE IF SolidOfBases(cs, bases) = NoClass THEN "TypeError"
    ELSE "none"

\* the class object type.__new__ returns
TypeNew(cs, self, bases, init, hasargs, init_args, slots, uslots) ==
    [meta |-> TRUE, bases |-> bases, init |-> init, hasargs |-> hasargs,
     init_args |-> init_args, slots |-> slots, uslots |-> uslots,
     hasdict |-> FALSE,
     solid |-> IF uslots # <<>> THEN self ELSE SolidOfBases(cs, bases),
     mro |-> NewMRO(cs, self, bases)]

\* ------------------------------------------------------------ auto_init
\* an auto_init that does not look at the default values
AutoInitDefaultsAllowed(shape) ==
    /\ shape \notin {"varargs", "varkw", "kwonlydefaults"}
    /\ shape # "kwonly"
    /\ shape # "annotations"

\* the assertions of auto_init on the signature of the decorated function
AutoInitOK(shape) ==
    /\ shape \notin {"varargs", "varkw", "kwonlydefaults"}
    /\ shape # "defaults"
    /\ shape # "kwonly"
    /\ shape # "annotations"

\* the function object a `def __init__` yields: the function itself, or the
\* trampoline auto_init returns, which carries auto_init_args and no cls
DefInit(args, shape, dec) ==
    [args |-> args, shape |-> shape, tramp |-> dec, cls |-> NoClass]

\* ------------------------------------------------------------ SlotsMeta
\* a __new__ that does not check multiple inheritance
LinearUnchecked(cs, bases) == TRUE

\* the check of multiple inheritance in __new__
LinearOK(cs, bases) ==
    Len(bases) > 1 =>
        LET all_inits == {InitOf(cs, b) : b \in Range(getmro(cs, bases[1]))}
        IN  \A i \in 2..Len(bases) : \A c \in Range(getmro(cs, bases[i])) :
                InitOf(cs, c) \in all_inits

\* bases and isinstance(bases[0], SlotsMeta)
FirstIsSlotsMeta(cs, bases) == bases # <<>> /\ IsSlotsMeta(cs, bases[1])

ParentInitArgs(cs, bases) ==
    IF FirstIsSlotsMeta(cs, bases) THEN InitArgsOf(cs, bases[1]) ELSE <<"self">>

\* getattr(init, 'auto_init_args', None), None being the empty list here:
\* both are false in `if init_args:`
AutoInitArgs(fun) == IF fun.tramp THEN fun.args ELSE <<>>

\* the assertions on inspect.getfullargspec(init); the trampoline itself is
\* def __init(*args, **kwargs)
ArgSpecOK(fun) ==
    /\ ~fun.tramp
    /\ fun.shape \notin {"varargs", "varkw", "kwonlydefaults"}
    /\ fun.shape # "kwonly"
    /\ fun.shape # "annotations"

\* the argument names getfullargspec reports
ArgSpecArgs(fun) == IF fun.tramp THEN <<>> ELSE fun.args

\* a patch_dict without its assertion
PatchDictUnchecked(init_args, parent_init_args) == TRUE

\* patch_dict: its assertion
PatchDictOK(init_args, parent_init_args) ==
    IsPrefix(parent_init_args, init_args)

\* a patch_dict that puts the names of 'slots' first
PatchDictSlotsSwapped(init_args, parent_init_args, slots) ==
    slots \o From(init_args, Len(parent_init_args))

\* a patch_dict that slices one name too early
PatchDictSlotsOverlap(init_args, parent_init_args, slots) ==
    From(init_args, Len(parent_init_args) - 1) \o slots

\* patch_dict: dct['__slots__']
PatchDictSlots(init_args, parent_init_args, slots) ==
    From(init_args, Len(parent_init_args)) \o slots

\* a patch_dict that publishes the argument list of the parent
PatchDictArgsParent(init_args, parent_init_args) == parent_init_args

\* patch_dict: dct['init_args']
PatchDictArgs(init_args, parent_init_args) == init_args

\* __new__ without __init__ in dct: dct['__slots__']
NoInitSlots(slots) == slots

\* a __new__ that accepts any first base for a class without __init__
NoInitBaseAny(cs, bases) == TRUE

\* __new__ without __init__ in dct: the assertion on the first base
NoInitBaseOK(cs, bases) == IsSlotsMeta(cs, bases[1])

Fail(err, at) == [err |-> err, at |-> at, setcls |-> FALSE]
Done(c, setcls) == [err |-> "none", at |-> "return", class |-> c, setcls |-> setcls]

\* type.__new__ called from __new__
SuperNew(cs, self, bases, init, hasargs, init_args, slots, uslots, setcls) ==
    IF TypeNewError(cs, self, bases) # "none"
    THEN Fail(TypeNewError(cs, self, bases), "type.__new__")
    ELSE Done(TypeNew(cs, self, bases, init, hasargs, init_args, slots, uslots), setcls)

\* SlotsMeta.__new__(cls, clsname, bases, dct); body is dct, fun the value
\* of dct['__init__'], fid its identity, self the identity of the new class
SlotsMetaNew(cs, self, bases, body, fun, fid) ==
    IF ~LinearOK(cs, bases) THEN Fail("AssertionError", "linear")
    ELSE IF body.rawslots THEN Fail("AssertionError", "__slots__")
    ELSE IF body.hasinit
    THEN LET parent_init_args == ParentInitArgs(cs, bases)
         IN  IF AutoInitArgs(fun) # <<>>
             THEN IF ~FirstIsSlotsMeta(cs, bases)
                  THEN Fail("AssertionError", "auto_init base")
                  ELSE IF ~PatchDictOK(AutoInitArgs(fun), parent_init_args)
                  THEN Fail("AssertionError", "patch_dict")
                  ELSE SuperNew(cs, self, bases, fid, TRUE,
                           PatchDictArgs(AutoInitArgs(fun), parent_init_args), body.slots,
                           PatchDictSlots(AutoInitArgs(fun), parent_init_args, body.slots),
                           TRUE)
             ELSE IF ~ArgSpecOK(fun) THEN Fail("AssertionError", "argspec")
                  ELSE IF ~PatchDictOK(ArgSpecArgs(fun), parent_init_args)
                  THEN Fail("AssertionError", "patch_dict")
                  ELSE SuperNew(cs, self, bases, fid, TRUE,
                           PatchDictArgs(ArgSpecArgs(fun), parent_init_args), body.slots,
                           PatchDictSlots(ArgSpecArgs(fun), parent_init_args, body.slots),
                           FALSE)
    ELSE IF bases = <<>> THEN Fail("IndexError", "bases[0]")
    ELSE IF ~NoInitBaseOK(cs, bases) THEN Fail("AssertionError", "base")
    ELSE SuperNew(cs, self, bases, NoFunc, FALSE, <<>>, body.slots,
             NoInitSlots(body.slots), FALSE)

\* ------------------------------------------------------------ statements
\* a class that type itself created: no init_args, no __slots__
PlainClass(init, hasdict, bases, mro) ==
    [meta |-> FALSE, bases |-> bases, init |-> init, hasargs |-> FALSE,
     init_args |-> <<>>, slots |-> <<>>, uslots |-> <<>>,
     hasdict |-> hasdict, solid |-> Object, mro |-> mro]

\* the classes and the functions that exist before any class statement
PlainClasses ==
    <<PlainClass(1, FALSE, <<>>, <<Object>>),
      PlainClass(2, TRUE, <<Object>>, <<Plain, Object>>),
      PlainClass(NoFunc, TRUE, <<Object>>, <<Mixin, Object>>)>>

PlainFuncs == <<DefInit(<<"self">>, "ok", FALSE), DefInit(<<"self">>, "ok", FALSE)>>

NoOrphan == [args |-> <<>>, shape |-> "ok", tramp |-> FALSE, cls |-> NoClass]

\* object is a base only implicitly
BaseLists(cs) == UNION {[1..n -> Plain..Len(cs)] : n \in 0..MaxBases}

\* the class bodies tried: without __init__; with an __init__ of a well-formed
\* signature, plain or decorated; with an __init__ of every other shape; and
\* one that sets __slots__ itself
Body(hasinit, args, shape, dec, rawslots, slots) ==
    [hasinit |-> hasinit, args |-> args, shape |-> shape, dec |-> dec,
     rawslots |-> rawslots, slots |-> slots]

Bodies ==
    {Body(FALSE, <<>>, "ok", FALSE, FALSE, s) : s \in SlotsChoices}
    \cup {Body(TRUE, a, "ok", d, FALSE, s) :
              a \in ArgLists, d \in BOOLEAN, s \in SlotsChoices}
    \cup {Body(TRUE, <<"self", "x">>, sh, d, FALSE, <<>>) :
              sh \in Shapes, d \in BOOLEAN}
    \cup {Body(FALSE, <<>>, "ok", FALSE, TRUE, <<>>)}

NumSlotted(cs) == Cardinality({c \in 1..Len(cs) : cs[c].slots # <<>>})

Running == [op |-> "none", err |-> "none", at |-> "return", hasinit |-> FALSE,
            shape |-> "ok", dec |-> FALSE, rooted |-> FALSE]

Outcome(body, bases, err, at) ==
    [op |-> "class", err |-> err, at |-> at, hasinit |-> body.hasinit,
     shape |-> body.shape, dec |-> body.dec,
     rooted |-> FirstIsSlotsMeta(classes, bases)]

\* a class statement can run: no statement failed, no call is in progress
Defining ==
    /\ last.err = "none"
    /\ inst.type = NoClass /\ stack = <<>>
    /\ Len(classes) < Len(PlainClasses) + MaxClasses

\* class clsname(*bases, metaclass=SlotsMeta): body
\* A run is followed up to its first failing statement: a failing statement
\* leaves classes and funcs as they were.
ClassStmt(bases, body) ==
    /\ Defining
    /\ body.slots # <<>> => NumSlotted(classes) < MaxSlotted
    /\ LET self == Len(classes) + 1
           fid == Len(funcs) + 1
           fun == DefInit(body.args, body.shape, body.dec)
       IN  \E r \in {SlotsMetaNew(classes, self, bases, body, fun, fid)} :
           IF body.hasinit /\ body.dec /\ ~AutoInitOK(body.shape)
           THEN /\ last' = Outcome(body, bases, "AssertionError", "auto_init")
                /\ UNCHANGED <<classes, funcs, orphan, inst, stack, log>>
           ELSE IF r.err # "none"
           THEN /\ last' = Outcome(body, bases, r.err, r.at)
                /\ orphan' = IF body.hasinit /\ body.dec THEN fun ELSE orphan
                /\ UNCHANGED <<classes, funcs, inst, stack, log>>
           ELSE /\ classes' = Append(classes, r.class)
                /\ funcs' = IF body.hasinit
                            THEN Append(funcs, [fun EXCEPT !.cls =
                                     IF r.setcls THEN self ELSE NoClass])
                            ELSE funcs
                /\ UNCHANGED <<orphan, last, inst, stack, log>>

\* one class statement, of any list of bases and any of these bodies
ClassStmts(bodies) ==
    /\ Defining
    /\ \E bases \in BaseLists(classes), body \in bodies : ClassStmt(bases, body)

\* ------------------------------------------------------- instantiation
Unset == 0

NoInst == [type |-> NoClass, k |-> 0, attrs |-> [n \in Names |-> Unset]]

Min(a, b) == IF a < b THEN a ELSE b

\* the part of type(self)'s MRO that super(cls, self) searches
RECURSIVE After(_, _)
After(m, cls) ==
    IF m = <<>> THEN <<>>
    ELSE IF m[1] = cls THEN Tail(m)
    ELSE After(Tail(m), cls)

\* setattr(self, name, arg) succeeds on a slot of that name or on a __dict__
CanSet(cs, t, name) ==
    \E c \in Range(getmro(cs, t)) : name \in Range(cs[c].uslots) \/ cs[c].hasdict

\* whether a call of a function written by the user, with these parameter
\* names, binds (the last parameter may have a default value)
Binds(params, shape, a, kw) ==
    /\ Len(a) <= Len(params)
    /\ \A i \in 1..Len(kw) : \E p \in (Len(a) + 1)..Len(params) : params[p] = kw[i][1]
    /\ \A i, j \in 1..Len(kw) : i # j => kw[i][1] # kw[j][1]
    /\ \A p \in (Len(a) + 1)..Len(params) :
           \/ \E i \in 1..Len(kw) : kw[i][1] = params[p]
           \/ shape = "defaults" /\ p = Len(params)

\* what the function f did at call depth d: "super", the call of g;
\* "set", a setattr; "body", the run of the body the user wrote
Event(ev, d, f, g, name, a, kw) ==
    [ev |-> ev, d |-> d, f |-> f, g |-> g, name |-> name, args |-> a, kwargs |-> kw]

Frame(fn, id, a, kw) ==
    [fn |-> fn, id |-> id, pc |-> IF fn.tramp THEN "assert" ELSE "plain",
     args |-> a, kwargs |-> kw, supn |-> 0, i |-> 1]

Raised(op, err, at) ==
    [op |-> op, err |-> err, at |-> at, hasinit |-> FALSE, shape |-> "ok",
     dec |-> FALSE, rooted |-> FALSE]

Top == stack[Len(stack)]
Depth == Len(stack)
Pop == SubSeq(stack, 1, Len(stack) - 1)
SetTop(fr) == [stack EXCEPT ![Len(stack)] = fr]

\* a call binds its arguments before the callee runs; the trampoline is
\* def __init(*args, **kwargs) and binds anything
CallBinds(fn, a, kw) == fn.tramp \/ Binds(fn.args, fn.shape, a, kw)

\* C(*args, **kwargs): type.__call__ makes the instance and calls C.__init__.
\* The first k - 1 arguments are positional, the others are keywords.
\* The argument for the parameter at position p is the value p.
Construct(c, k) ==
    /\ last.err = "none"
    /\ inst.type = NoClass /\ stack = <<>>
    /\ c \in 1..Len(classes) /\ IsSlotsMeta(classes, c)
    /\ k \in 1..Len(InitArgsOf(classes, c))
    /\ LET names == InitArgsOf(classes, c)
           a == [p \in 1..k |-> p]
           kw == [i \in 1..(Len(names) - k) |-> <<names[k + i], k + i>>]
           id == InitOf(classes, c)
       IN  /\ inst' = [type |-> c, k |-> k, attrs |-> [n \in Names |-> Unset]]
           /\ IF CallBinds(funcs[id], a, kw)
              THEN /\ stack' = <<Frame(funcs[id], id, a, kw)>>
                   /\ last' = Raised("init", "none", "return")
              ELSE /\ stack' = stack
                   /\ last' = Raised("init", "TypeError", "call")
           /\ UNCHANGED <<classes, funcs, orphan, log>>

\* a call of the trampoline that a failed class statement left behind
CallOrphan ==
    /\ last.op = "class" /\ last.err # "none"
    /\ orphan.tramp
    /\ stack = <<>>
    /\ stack' = <<Frame(orphan, NoFunc, <<1>>, <<>>)>>
    /\ last' = Raised("call", "none", "return")
    /\ UNCHANGED <<classes, funcs, orphan, inst, log>>

Stepping == last.err = "none" /\ stack # <<>>

\* the pc after the call of the superclass __init__, or after an assignment
Advance(fr, names) ==
    IF fr.pc = "assign" /\ fr.supn + fr.i > Min(Len(names), Len(fr.args))
    THEN IF fr.kwargs = <<>> THEN [fr EXCEPT !.pc = "body"]
         ELSE [fr EXCEPT !.pc = "kwassign", !.i = 1]
    ELSE IF fr.pc = "kwassign" /\ fr.i > Len(fr.kwargs)
    THEN [fr EXCEPT !.pc = "body"]
    ELSE fr

\* a trampoline that hands all its arguments to sup.__init__
SuperArgsAll(args, super_nargs) == args

\* __init: (self,) + args[1:super_nargs], the arguments of sup.__init__
SuperArgs(args, super_nargs) ==
    <<args[1]>> \o SubSeq(args, 2, Min(super_nargs, Len(args)))

\* a trampoline without its assertion
TrampAssertSkipped ==
    /\ last.err = "none" /\ stack # <<>> /\ stack[Len(stack)].pc = "assert"
    /\ stack' = [stack EXCEPT ![Len(stack)].pc = "super"]
    /\ UNCHANGED <<classes, funcs, orphan, last, inst, log>>

\* __init: assert hasattr(__init, 'cls')
TrampAssert ==
    /\ Stepping /\ Top.pc = "assert"
    /\ IF Top.fn.cls = NoClass
       THEN /\ last' = Raised(last.op, "AssertionError", "trampoline")
            /\ stack' = stack
       ELSE /\ stack' = SetTop([Top EXCEPT !.pc = "super"])
            /\ last' = last
    /\ UNCHANGED <<classes, funcs, orphan, inst, log>>

\* __init: sup = super(cls, self); super_nargs = len(sup.init_args);
\* sup.__init__(*args[1:super_nargs])
TrampSuper ==
    /\ Stepping /\ Top.pc = "super"
    /\ LET cls == Top.fn.cls
           rest == After(getmro(classes, inst.type), cls)
           super_nargs == Len(LookupArgs(classes, rest))
           g == LookupInit(classes, rest)
           a == SuperArgs(Top.args, super_nargs)
           fr == [Top EXCEPT !.pc = "assign", !.supn = super_nargs, !.i = 1]
       IN  IF ~issubclass(classes, inst.type, cls)
           THEN /\ last' = Raised(last.op, "TypeError", "super")
                /\ UNCHANGED <<stack, log>>
           ELSE IF \A c \in Range(rest) : ~classes[c].hasargs
           THEN /\ last' = Raised(last.op, "AttributeError", "init_args")
                /\ UNCHANGED <<stack, log>>
           ELSE /\ log' = Append(log, Event("super", Depth, Top.id, g, "", a, <<>>))
                /\ IF CallBinds(funcs[g], a, <<>>)
                   THEN /\ stack' = Append(SetTop(Advance(fr, InitArgsOf(classes, inst.type))),
                                           Frame(funcs[g], g, a, <<>>))
                        /\ last' = last
                   ELSE /\ stack' = stack
                        /\ last' = Raised(last.op, "TypeError", "call")
    /\ UNCHANGED <<classes, funcs, orphan, inst>>

\* __init: one turn of  for (name, arg) in zip(self.init_args[super_nargs:],
\* args[super_nargs:]): setattr(self, name, arg)
TrampAssign ==
    /\ Stepping /\ Top.pc = "assign"
    /\ LET names == InitArgsOf(classes, inst.type)
           p == Top.supn + Top.i
       IN  IF CanSet(classes, inst.type, names[p])
           THEN /\ inst' = [inst EXCEPT !.attrs[names[p]] = Top.args[p]]
                /\ log' = Append(log, Event("set", Depth, Top.id, NoFunc, names[p], <<Top.args[p]>>, <<>>))
                /\ stack' = SetTop(Advance([Top EXCEPT !.i = Top.i + 1], names))
                /\ last' = last
           ELSE /\ last' = Raised(last.op, "AttributeError", "setattr")
                /\ UNCHANGED <<inst, log, stack>>
    /\ UNCHANGED <<classes, funcs, orphan>>

\* __init: one turn of  for (name, arg) in kwargs.items(): setattr(self, name, arg)
TrampKwAssign ==
    /\ Stepping /\ Top.pc = "kwassign"
    /\ LET names == InitArgsOf(classes, inst.type)
           name == Top.kwargs[Top.i][1]
           arg == Top.kwargs[Top.i][2]
       IN  IF CanSet(classes, inst.type, name)
           THEN /\ inst' = [inst EXCEPT !.attrs[name] = arg]
                /\ log' = Append(log, Event("set", Depth, Top.id, NoFunc, name, <<arg>>, <<>>))
                /\ stack' = SetTop(Advance([Top EXCEPT !.i = Top.i + 1], names))
                /\ last' = last
           ELSE /\ last' = Raised(last.op, "AttributeError", "setattr")
                /\ UNCHANGED <<inst, log, stack>>
    /\ UNCHANGED <<classes, funcs, orphan>>

\* __init: fun(*args, **kwargs), the body the user wrote; then __init returns
TrampBody ==
    /\ Stepping /\ Top.pc = "body"
    /\ IF Binds(Top.fn.args, Top.fn.shape, Top.args, Top.kwargs)
       THEN /\ log' = Append(log, Event("body", Depth, Top.id, NoFunc, "", Top.args, Top.kwargs))
            /\ stack' = Pop
            /\ last' = last
       ELSE /\ last' = Raised(last.op, "TypeError", "call")
            /\ UNCHANGED <<stack, log>>
    /\ UNCHANGED <<classes, funcs, orphan, inst>>

\* an __init__ the user wrote without auto_init: it stores its parameters in
\* attributes of their names, or it stores nothing; then it returns
PlainInit(store) ==
    /\ Stepping /\ Top.pc = "plain"
    /\ LET bound == {<<Top.fn.args[p], Top.args[p]>> : p \in 2..Len(Top.args)}
                    \cup Range(Top.kwargs)
       IN  IF store /\ \E b \in bound : ~CanSet(classes, inst.type, b[1])
           THEN /\ last' = Raised(last.op, "AttributeError", "setattr")
                /\ UNCHANGED <<inst, log, stack>>
           ELSE /\ inst' = IF store
                           THEN [inst EXCEPT !.attrs = [n \in Names |->
                                    IF \E b \in bound : b[1] = n
                                    THEN (CHOOSE b \in bound : b[1] = n)[2]
                                    ELSE inst.attrs[n]]]
                           ELSE inst
                /\ log' = Append(log, Event("plain", Depth, Top.id, NoFunc, "", Top.args, Top.kwargs))
                /\ stack' = Pop
                /\ last' = last
    /\ UNCHANGED <<classes, funcs, orphan>>

Init ==
    /\ classes = PlainClasses
    /\ funcs = PlainFuncs
    /\ orphan = NoOrphan
    /\ last = Running
    /\ inst = NoInst
    /\ stack = <<>>
    /\ log = <<>>

Next == ClassStmts(Bodies)

Spec == Init /\ [][Next]_vars

\* the class statements of well-formed bodies, and the instantiation of the
\* classes they create
RunBodies == {b \in Bodies : b.shape = "ok" /\ ~b.rawslots /\ b.slots = <<>>}

NextRun ==
    \/ ClassStmts(RunBodies)
    \/ \E c \in 1..Len(classes), k \in 1..Cardinality(Names) : Construct(c, k)
    \/ CallOrphan
    \/ TrampAssert
    \/ TrampSuper
    \/ TrampAssign
    \/ TrampKwAssign
    \/ TrampBody
    \/ \E store \in BOOLEAN : PlainInit(store)

SpecRun == Init /\ [][NextRun]_vars

\* ------------------------------------------------------------ properties
\* the classes SlotsMeta created
Created == {c \in 1..Len(classes) : classes[c].meta}

OwnInit(c) == classes[c].init # NoFunc

\* the argument names of the function the user wrote
UserArgs(f) == funcs[f].args

\* a class, its first base, the first base of that, ...
RECURSIVE Chain(_)
Chain(c) ==
    IF classes[c].bases = <<>> THEN (IF c = Object THEN <<c>> ELSE <<c, Object>>)
    ELSE <<c>> \o Chain(classes[c].bases[1])

\* the __slots__ of the classes of the chain, from the root down
RECURSIVE SlotsDown(_)
SlotsDown(c) ==
    (IF classes[c].bases = <<>> THEN <<>> ELSE SlotsDown(classes[c].bases[1]))
    \o classes[c].uslots

NoDup(q) == \A i, j \in 1..Len(q) : i # j => q[i] # q[j]

\* C1: a class whose body defines __init__ has as __slots__ the argument
\* names of that __init__ after the init_args of its first base (after self
\* when the first base is no SlotsMeta class), in order, followed by the
\* names of its 'slots'
SlotsFromInit ==
    \A c \in Created : OwnInit(c) =>
        LET b == classes[c].bases
            parent == IF b # <<>> /\ classes[b[1]].meta
                      THEN InitArgsOf(classes, b[1]) ELSE <<"self">>
            args == UserArgs(classes[c].init)
        IN  classes[c].uslots =
                SubSeq(args, Len(parent) + 1, Len(args)) \o classes[c].slots

SlotsFromInitWitness ==
    \E c \in Created :
        /\ OwnInit(c)
        /\ classes[c].bases # <<>> /\ classes[classes[c].bases[1]].meta
        /\ classes[c].uslots = <<"x", "s">>

\* C2: a class whose body defines no __init__ has as __slots__ the names of
\* its 'slots', () when it has none, it has no init_args of its own, and its
\* first base is a SlotsMeta class
SlotsWithoutInit ==
    \A c \in Created : ~OwnInit(c) =>
        /\ classes[c].uslots = classes[c].slots
        /\ ~classes[c].hasargs
        /\ classes[c].bases # <<>>
        /\ classes[classes[c].bases[1]].meta

SlotsWithoutInitWitness ==
    /\ \E c \in Created : ~OwnInit(c) /\ classes[c].uslots = <<>>
    /\ \E c \in Created : ~OwnInit(c) /\ classes[c].uslots = <<"s">>

\* C3: init_args of a created class, found along its MRO, is the argument
\* list of the __init__ found along its MRO, the one of the function the user
\* wrote when that __init__ is a trampoline
InitArgsMatchInit ==
    \A c \in Created : InitArgsOf(classes, c) = UserArgs(InitOf(classes, c))

InitArgsMatchInitWitness ==
    \E c \in Created :
        /\ ~OwnInit(c)
        /\ Len(classes[c].bases) = 2
        /\ funcs[InitOf(classes, c)].tramp
        /\ Len(InitArgsOf(classes, c)) >= 2

\* C4: no class is created whose __init__, plain or decorated, has *args,
\* **kwargs, a keyword-only parameter, a default value or an annotation, and
\* the class statement fails with an assertion
ShapeRestrictionsEnforced ==
    /\ \A c \in Created : OwnInit(c) => funcs[classes[c].init].shape = "ok"
    /\ (last.op = "class" /\ last.hasinit /\ last.shape # "ok")
           => last.err = "AssertionError"

\* C4, amended: no class is created whose __init__, plain or decorated, has
\* *args, **kwargs, a keyword-only parameter or an annotation, nor one whose
\* decorated __init__ has a default value, and such a class statement fails
\* with an assertion; a default value in a plain __init__ is not restricted
ShapeRestrictionsButDefaults ==
    /\ \A c \in Created : OwnInit(c) =>
           \/ funcs[classes[c].init].shape = "ok"
           \/ funcs[classes[c].init].shape = "defaults" /\ ~funcs[classes[c].init].tramp
    /\ (last.op = "class" /\ last.hasinit /\ last.shape # "ok"
            /\ ~(last.shape = "defaults" /\ ~last.dec))
           => last.err = "AssertionError"

ShapeRestrictionsButDefaultsWitness ==
    /\ \E c \in Created : OwnInit(c) /\ funcs[classes[c].init].shape = "defaults"
    /\ last.op = "class" /\ last.shape = "annotations" /\ ~last.dec
    /\ last.err = "AssertionError" /\ last.at = "argspec"

\* C7: a class with several bases is created only when every class in the
\* MRO of a later base has the __init__ of a class in the MRO of the first
\* base, and the __init__ functions in the MRO of a created class are those
\* of its chain of first bases
InitsOf(m) == {InitOf(classes, x) : x \in Range(m)}

InitArgsPrefix ==
    \A c \in Created :
        /\ OwnInit(c) =>
               IsPrefix(ParentInitArgs(classes, classes[c].bases), classes[c].init_args)
        /\ \A a \in Range(Chain(c)) : classes[a].meta =>
               IsPrefix(InitArgsOf(classes, a), InitArgsOf(classes, c))
        /\ InitArgsOf(classes, c) # <<>>
        /\ InitArgsOf(classes, c)[1] = "self"

InitArgsPrefixWitness ==
    \E c \in Created :
        /\ InitArgsOf(classes, c) = <<"self", "x", "y">>
        /\ \E a \in Range(Chain(c)) :
               classes[a].meta /\ InitArgsOf(classes, a) = <<"self", "x">>

\* C9: when no class declares 'slots', the __slots__ of the classes on the
\* chain of first bases of a class hold no name twice and, from the root
\* down, make up its init_args without self
OneSlotPerArg ==
    NumSlotted(classes) = 0 =>
        \A c \in Created :
            /\ SlotsDown(c) = Tail(InitArgsOf(classes, c))
            /\ NoDup(SlotsDown(c))
            /\ "self" \notin Range(SlotsDown(c))

OneSlotPerArgWitness ==
    /\ NumSlotted(classes) = 0
    /\ \E c \in Created :
           /\ SlotsDown(c) = <<"x", "y">>
           /\ classes[c].uslots = <<"y">>
           /\ classes[classes[c].bases[1]].uslots = <<"x">>

\* the instantiation in progress or finished: the __init__ that
\* type.__call__ called, the class it belongs to, and what super(cls, self)
\* finds
TopInit == InitOf(classes, inst.type)
TopNames == InitArgsOf(classes, inst.type)
TopRest == After(getmro(classes, inst.type), funcs[TopInit].cls)
TopSuperArgs == LookupArgs(classes, TopRest)

\* what an @auto_init __init__ called with k - 1 leading positional
\* arguments is to do itself, in order
ExpectedLog ==
    LET n == Len(TopNames)
        supn == Len(TopSuperArgs)
        k == inst.k
        kw == [i \in 1..(n - k) |-> <<TopNames[k + i], k + i>>]
    IN  <<Event("super", 1, TopInit, LookupInit(classes, TopRest), "",
                [p \in 1..supn |-> p], <<>>)>>
        \o [i \in 1..(n - supn) |->
               Event("set", 1, TopInit, NoFunc, TopNames[supn + i], <<supn + i>>, <<>>)]
        \o <<Event("body", 1, TopInit, NoFunc, "", [p \in 1..k |-> p], kw)>>

OwnLog == SelectSeq(log, LAMBDA e : e.d = 1)

\* an instantiation whose __init__ is a trampoline and whose positional
\* arguments cover the init_args of the superclass
TrampCase ==
    /\ last.op = "init"
    /\ funcs[TopInit].tramp
    /\ inst.k >= Len(TopSuperArgs)

\* C5: the trampoline calls the superclass __init__ once, with the leading
\* arguments of the superclass's init_args; after that call has returned it
\* assigns the other arguments to the attributes named by init_args, keyword
\* arguments to the attributes of their names; then it runs the body the user
\* wrote, once, with the original arguments; nothing raises; and when the
\* body starts the attributes assigned hold their arguments
TrampolineOrder ==
    TrampCase =>
        /\ last.err = "none"
        /\ IsPrefix(OwnLog, ExpectedLog)
        /\ (stack = <<>> => OwnLog = ExpectedLog)
        /\ \A i, j \in 1..Len(log) :
               (i < j /\ log[i].d = 1 /\ log[i].ev # "super") => log[j].d = 1
        /\ (Len(stack) = 1 /\ stack[1].pc = "body") =>
               /\ \A p \in (Len(TopSuperArgs) + 1)..Len(TopNames) :
                      inst.attrs[TopNames[p]] = p
               /\ \A i \in 1..Len(log) : log[i].ev = "set" =>
                      inst.attrs[log[i].name] = log[i].args[1]

TrampolineOrderWitness ==
    /\ TrampCase
    /\ inst.k = 3 /\ Len(TopNames) = 3
    /\ stack = <<>>
    /\ Len(TopSuperArgs) = 2
    /\ funcs[LookupInit(classes, TopRest)].tramp
    /\ inst.attrs["x"] = 2 /\ inst.attrs["y"] = 3
    /\ Len(log) = 6

\* C6: a trampoline without cls does nothing but fail its assertion; a
\* trampoline has cls exactly when a class statement that succeeded installed
\* it, and then the first base of that class is a SlotsMeta class; a class
\* statement with an @auto_init __init__ and no SlotsMeta first base fails
\* with an assertion and leaves the trampoline without cls
TrampolineNeedsCls ==
    /\ \A i \in 1..Len(stack) :
           (stack[i].fn.tramp /\ stack[i].pc # "assert") => stack[i].fn.cls # NoClass
    /\ \A i \in 1..Len(log) :
           log[i].f # NoFunc /\ (funcs[log[i].f].tramp => funcs[log[i].f].cls # NoClass)
    /\ last.op = "call" =>
           /\ log = <<>> /\ inst = NoInst
           /\ Len(stack) = 1 /\ stack[1].pc = "assert"
           /\ last.err \in {"none", "AssertionError"}
    /\ orphan.cls = NoClass
    /\ \A f \in 1..Len(funcs) : funcs[f].tramp =>
           /\ funcs[f].cls \in Created
           /\ classes[funcs[f].cls].init = f
           /\ FirstIsSlotsMeta(classes, classes[funcs[f].cls].bases)
    /\ \A c \in Created : OwnInit(c) /\ funcs[classes[c].init].tramp =>
           funcs[classes[c].init].cls = c
    /\ (last.op = "class" /\ last.hasinit /\ last.dec /\ ~last.rooted) =>
           /\ last.err = "AssertionError"
           /\ orphan.tramp

TrampolineNeedsClsWitness ==
    /\ last.op = "call" /\ last.err = "AssertionError" /\ last.at = "trampoline"
    /\ orphan.tramp /\ orphan.args = <<"self", "x">>
    /\ stack[1].args = <<1>>

====
